---- MODULE Spec2Model ----
(***************************************************************************)
(* A model of the falling-block game: the Bag cursor (bag.ts), the Bitmap  *)
(* grid (bitmap.ts), the Shape piece and the Game loop (game.ts).          *)
(*                                                                         *)
(* Grids are sequences of rows, rows are sequences of cells; the code's    *)
(* 0-based cell data[r][c] is b[r + 1][c + 1] here.  Offsets and indices   *)
(* keep the code's 0-based values.                                         *)
(***************************************************************************)
EXTENDS Integers, Sequences, FiniteSets, TLC

\* ------------------------------------------------------------------------
\* Program constants
\* ------------------------------------------------------------------------

ROWS == 15

COLS == 10

\* Bitmap.E, the empty style.
E == ""

\* The colour tags of blocks.ts.
B == "#0000ff"

C == "#00ffff"

G == "#00ff00"

O == "#ff7f00"

P == "#800080"

R == "#ff0000"

Y == "#ffff00"

BLOCK_I == << <<C, C, C, C>> >>

BLOCK_J == << <<B, E, E>>, <<B, B, B>> >>

BLOCK_L == << <<E, E, O>>, <<O, O, O>> >>

BLOCK_O == << <<Y, Y>>, <<Y, Y>> >>

BLOCK_S == << <<E, G, G>>, <<G, G, E>> >>

BLOCK_T == << <<P, P, P>>, <<E, P, E>> >>

BLOCK_Z == << <<R, R, E>>, <<E, R, R>> >>

BLOCKS == <<BLOCK_I, BLOCK_J, BLOCK_L, BLOCK_O, BLOCK_S, BLOCK_T, BLOCK_Z>>

\* The three values of enum State.
PLAYING == "PLAYING"

PAUSED == "PAUSED"

GAME_OVER == "GAME_OVER"

\* ------------------------------------------------------------------------
\* Bag (bag.ts): the cursor arithmetic over a bag of n values
\* ------------------------------------------------------------------------

Bag_next(index, n) == (index + 1) % n

\* Mutant of previous: the length is not added before the remainder is
\* taken, and the remainder of -1 in the code's arithmetic is -1.
Mut_previous_noLength(index, n) == IF index = 0 THEN -1 ELSE (index - 1) % n

Bag_previous(index, n) == (n + index - 1) % n

\* Math.floor(Math.random() * n): any index of 0 .. n-1, picked by the caller.
Bag_random(n) == 0 .. (n - 1)

\* ------------------------------------------------------------------------
\* Bitmap (bitmap.ts)
\* ------------------------------------------------------------------------

Min(a, b) == IF a < b THEN a ELSE b

\* The element of a one-element set.  The({e(x) : x \in {v}}) is e(v) with v
\* computed once: it stands for the code's local constants.
The(S) == CHOOSE x \in S : TRUE

Bitmap_rows(b) == Len(b)

Bitmap_cols(b) == Len(b[1])

Bitmap_emptyWithSize(nrows, ncols) == [r \in 1 .. nrows |-> [c \in 1 .. ncols |-> E]]

\* Mutant of rotate: the rows are not read from the bottom up (a transposition).
Mut_rotate_transposes(b) ==
    [c \in 1 .. Bitmap_cols(b) |-> [r \in 1 .. Bitmap_rows(b) |-> b[r][c]]]

\* rotated[col][row] = data[rows - row - 1][col]
Bitmap_rotate(b) ==
    [c \in 1 .. Bitmap_cols(b) |-> [r \in 1 .. Bitmap_rows(b) |-> b[Bitmap_rows(b) - r + 1][c]]]

Bitmap_allRotations(b) ==
    <<b, Bitmap_rotate(b), Bitmap_rotate(Bitmap_rotate(b)), Bitmap_rotate(Bitmap_rotate(Bitmap_rotate(b)))>>

\* How this.isOverlapping(rowOffset, colOffset, other) ends, for any offsets:
\* "true", "false" or "TypeError".  The loops start at the offsets.  With a
\* negative rowOffset the first iteration reads other.data[row] of a negative
\* row, which is undefined, and indexing it throws.  With a negative
\* colOffset other.data[row][col] of a negative col is undefined, which is
\* != E: the cell counts as not EMPTY.
Bitmap_isOverlappingOutcome(this, rowOffset, colOffset, other) ==
    LET maxRows == Min(Bitmap_rows(other), rowOffset + Bitmap_rows(this))
        maxCols == Min(Bitmap_cols(other), colOffset + Bitmap_cols(this))
    IN  IF rowOffset >= maxRows \/ colOffset >= maxCols
        THEN "false"
        ELSE IF rowOffset < 0
             THEN "TypeError"
             ELSE IF \E row \in rowOffset .. (maxRows - 1) :
                         \E col \in colOffset .. (maxCols - 1) :
                             /\ this[row - rowOffset + 1][col - colOffset + 1] # E
                             /\ (col < 0 \/ other[row + 1][col + 1] # E)
                  THEN "true"
                  ELSE "false"

\* this.isOverlapping(rowOffset, colOffset, other) where it returns.
Bitmap_isOverlapping(this, rowOffset, colOffset, other) ==
    Bitmap_isOverlappingOutcome(this, rowOffset, colOffset, other) = "true"

\* Mutant of copyFrom: the EMPTY cells of `other` are copied too.
Mut_copyFrom_copiesEmpty(this, rowOffset, colOffset, other) ==
    LET maxRows == Min(Bitmap_rows(this), rowOffset + Bitmap_rows(other))
        maxCols == Min(Bitmap_cols(this), colOffset + Bitmap_cols(other))
    IN  [r \in 1 .. Bitmap_rows(this) |->
            [c \in 1 .. Bitmap_cols(this) |->
                IF /\ r - 1 >= rowOffset /\ r - 1 < maxRows
                   /\ c - 1 >= colOffset /\ c - 1 < maxCols
                THEN other[r - rowOffset][c - colOffset]
                ELSE this[r][c]]]

\* this.copyFrom(rowOffset, colOffset, other): the grid `this` becomes.
Bitmap_copyFrom(this, rowOffset, colOffset, other) ==
    LET maxRows == Min(Bitmap_rows(this), rowOffset + Bitmap_rows(other))
        maxCols == Min(Bitmap_cols(this), colOffset + Bitmap_cols(other))
    IN  [r \in 1 .. Bitmap_rows(this) |->
            [c \in 1 .. Bitmap_cols(this) |->
                IF /\ r - 1 >= rowOffset /\ r - 1 < maxRows
                   /\ c - 1 >= colOffset /\ c - 1 < maxCols
                   /\ other[r - rowOffset][c - colOffset] # E
                THEN other[r - rowOffset][c - colOffset]
                ELSE this[r][c]]]

Bitmap_isRowFilled(b, row) == \A col \in 0 .. (Bitmap_cols(b) - 1) : b[row + 1][col + 1] # E

\* splice(row, 1), then unshift of an empty row as wide as the new first row.
\* In a grid of one row the splice leaves no row: this.cols() then reads
\* this.data[0].length of an empty array and throws, and the data stay empty.
Bitmap_removeRow(b, row) ==
    LET spliced == [r \in 1 .. (Bitmap_rows(b) - 1) |-> IF r <= row THEN b[r] ELSE b[r + 1]]
    IN  IF Len(spliced) = 0
        THEN spliced
        ELSE << [c \in 1 .. Bitmap_cols(spliced) |-> E] >> \o spliced

\* Mutant of the loop of removeFilledRows: the scan moves up after a removal
\* too, past the row that has come down into the place of the removed one.
RECURSIVE Mut_removeFilledRowsLoop_movesOn(_, _, _)
Mut_removeFilledRowsLoop_movesOn(b, row, count) ==
    IF row >= count
    THEN IF Bitmap_isRowFilled(b, row)
         THEN The({IF Len(removed) = 0
                   THEN <<removed, count, "TypeError">>
                   ELSE Mut_removeFilledRowsLoop_movesOn(removed, row - 1, count + 1) :
                      removed \in {Bitmap_removeRow(b, row)}})
         ELSE Mut_removeFilledRowsLoop_movesOn(b, row - 1, count)
    ELSE <<b, count>>

\* The loop of removeFilledRows from (row, count) on: <<grid, count>>, or
\* <<grid, count, "TypeError">> when removeRow throws (count++ is not reached).
RECURSIVE Bitmap_removeFilledRowsLoop(_, _, _)
Bitmap_removeFilledRowsLoop(b, row, count) ==
    IF row >= count
    THEN IF Bitmap_isRowFilled(b, row)
         THEN The({IF Len(removed) = 0
                   THEN <<removed, count, "TypeError">>
                   ELSE Bitmap_removeFilledRowsLoop(removed, row, count + 1) :
                      removed \in {Bitmap_removeRow(b, row)}})
         ELSE Bitmap_removeFilledRowsLoop(b, row - 1, count)
    ELSE <<b, count>>

Bitmap_removeFilledRows(b) == Bitmap_removeFilledRowsLoop(b, Bitmap_rows(b) - 1, 0)

\* ------------------------------------------------------------------------
\* Shape (game.ts, second half) over the game record g:
\*   board      the Game's board bitmap
\*   index      the cursor of the Game's bag of the 7 shapes
\*   rot        the cursor of each shape's bag of 4 rotations (kept by the
\*              shape across selections: only the offsets are reset)
\*   rowOffset, colOffset   the offsets of the shape shapes.current(); the
\*              offsets of the other six shapes are overwritten by
\*              resetPosition before anything reads them, so they are not kept
\*   state, lines, score    the Game's fields
\* Operations that return a value return [g |-> the record after, ok |-> it].
\* ------------------------------------------------------------------------

\* new Bag(bitmap.allRotations()) of every shape of Shape.asShapes(BLOCKS).
ShapeRotations == [i \in 0 .. (Len(BLOCKS) - 1) |-> Bitmap_allRotations(BLOCKS[i + 1])]

\* this.rotations.current() of the shape shapes.current().
Shape_current(g) == ShapeRotations[g.index][g.rot[g.index] + 1]

\* Mutant of isWithin: the bottom edge is tested one row too low.
Mut_isWithin_offByOne(g) ==
    /\ g.colOffset >= 0
    /\ g.colOffset + Bitmap_cols(Shape_current(g)) <= Bitmap_cols(g.board)
    /\ g.rowOffset + Bitmap_rows(Shape_current(g)) <= Bitmap_rows(g.board) + 1

\* Mutant of isWithin: the left edge is not tested.
Mut_isWithin_noLeftEdge(g) ==
    /\ g.colOffset + Bitmap_cols(Shape_current(g)) <= Bitmap_cols(g.board)
    /\ g.rowOffset + Bitmap_rows(Shape_current(g)) <= Bitmap_rows(g.board)

Shape_isWithin(g) ==
    IF g.colOffset < 0
    THEN FALSE
    ELSE IF g.colOffset + Bitmap_cols(Shape_current(g)) > Bitmap_cols(g.board)
         THEN FALSE
         ELSE IF g.rowOffset + Bitmap_rows(Shape_current(g)) > Bitmap_rows(g.board)
              THEN FALSE
              ELSE TRUE

Shape_isOverlapping(g) ==
    Bitmap_isOverlapping(Shape_current(g), g.rowOffset, g.colOffset, g.board)

\* Mutant of changeColOffset: the column is not put back when the move fails.
Mut_changeColOffset_noRevert(g, colOffset) ==
    LET moved == [g EXCEPT !.colOffset = colOffset]
    IN  IF ~Shape_isWithin(moved) \/ Shape_isOverlapping(moved)
        THEN [g |-> moved, ok |-> FALSE]
        ELSE [g |-> moved, ok |-> TRUE]

Shape_changeColOffset(g, colOffset) ==
    LET moved == [g EXCEPT !.colOffset = colOffset]
    IN  IF ~Shape_isWithin(moved) \/ Shape_isOverlapping(moved)
        THEN [g |-> g, ok |-> FALSE]
        ELSE [g |-> moved, ok |-> TRUE]

Shape_left(g) == Shape_changeColOffset(g, g.colOffset - 1)

Shape_right(g) == Shape_changeColOffset(g, g.colOffset + 1)

Shape_down(g) ==
    LET moved == [g EXCEPT !.rowOffset = g.rowOffset + 1]
    IN  IF ~Shape_isWithin(moved) \/ Shape_isOverlapping(moved)
        THEN [g |-> g, ok |-> FALSE]
        ELSE [g |-> moved, ok |-> TRUE]

Shape_fitWithin(g) ==
    LET boardRows == Bitmap_rows(g.board)
        boardCols == Bitmap_cols(g.board)
        g1 == IF g.colOffset < 0 THEN [g EXCEPT !.colOffset = 0] ELSE g
        currentCols == Bitmap_cols(Shape_current(g1))
        g2 == IF g1.colOffset + currentCols > boardCols
              THEN [g1 EXCEPT !.colOffset = boardCols - currentCols]
              ELSE g1
        currentRows == Bitmap_rows(Shape_current(g2))
    IN  IF g2.rowOffset + currentRows > boardRows
        THEN [g2 EXCEPT !.rowOffset = boardRows - currentRows]
        ELSE g2

\* rotations.next(), fitWithin, and rotations.previous() when overlapping:
\* previous() restores the rotation, nothing restores the offsets.
Shape_rotate(g) ==
    LET n == Len(ShapeRotations[g.index])
        turned == [g EXCEPT !.rot[g.index] = Bag_next(g.rot[g.index], n)]
    IN  The({IF Shape_isOverlapping(fitted)
             THEN [g |-> [fitted EXCEPT
                             !.rot[g.index] = Bag_previous(fitted.rot[g.index], n)],
                   ok |-> FALSE]
             ELSE [g |-> fitted, ok |-> TRUE] :
                fitted \in {Shape_fitWithin(turned)}})

Shape_resetPosition(g) ==
    LET placed == [g EXCEPT !.rowOffset = 0,
                            !.colOffset = (Bitmap_cols(g.board)
                                           - Bitmap_cols(Shape_current(g))) \div 2]
    IN  [g |-> placed, ok |-> ~Shape_isOverlapping(placed)]

Shape_copyTo(g) ==
    [g EXCEPT !.board = Bitmap_copyFrom(g.board, g.rowOffset, g.colOffset,
                                        Shape_current(g))]

\* ------------------------------------------------------------------------
\* Game (game.ts, first half).  A handler returns
\*   [g |-> the record after, ok |-> its return value,
\*    calls |-> the calls of moveDown it made, landed |-> a piece landed,
\*    removed |-> the rows removeFilledRows removed at that landing]
\* and takes rnd, the index Math.random() yields if nextShape runs.
\* ------------------------------------------------------------------------

Ret(g, ok, calls, landed, removed) ==
    [g |-> g, ok |-> ok, calls |-> calls, landed |-> landed, removed |-> removed]

\* Mutant of nextShape: the result of resetPosition is ignored.
Mut_nextShape_ignoresOverlap(g, rnd) ==
    Shape_resetPosition([g EXCEPT !.index = rnd]).g

Game_nextShape(g, rnd) ==
    The({IF ~reset.ok THEN [reset.g EXCEPT !.state = GAME_OVER] ELSE reset.g :
            reset \in {Shape_resetPosition([g EXCEPT !.index = rnd])}})

\* Mutant of the scoring: 1000 is scored for more than 4 rows only.
Mut_scored_tetrisAbove4(score, lines, total) ==
    IF lines <= 4 THEN score + total * 10 ELSE score + 1000

\* Mutant of the scoring: the rows removed now are scored, not the total.
Mut_scored_rowsRemoved(score, lines, total) ==
    IF lines < 4 THEN score + lines * 10 ELSE score + 1000

\* Mutant of the scoring: the score is assigned, not added to.
Mut_scored_assigned(score, lines, total) ==
    IF lines < 4 THEN total * 10 ELSE 1000

\* The score after a landing that removed `lines` rows, `total` being the
\* lines counter after them.
Game_scored(score, lines, total) ==
    IF lines < 4 THEN score + total * 10 ELSE score + 1000

\* The landing of moveDown: copyTo, removeFilledRows, the counters, nextShape.
Game_land(g, rnd) ==
    The({The({LET lines == removal[2]
                  total == copied.lines + lines
                  scored == [copied EXCEPT
                                !.board = removal[1],
                                !.lines = total,
                                !.score = Game_scored(copied.score, lines, total)]
              IN  Ret(Game_nextShape(scored, rnd), FALSE, 1, TRUE, lines) :
                 removal \in {Bitmap_removeFilledRows(copied.board)}}) :
            copied \in {Shape_copyTo(g)}})

Game_moveDown(g, rnd) ==
    The({IF ~moved.ok THEN Game_land(moved.g, rnd) ELSE Ret(moved.g, TRUE, 1, FALSE, 0) :
            moved \in {Shape_down(g)}})

\* while (this.moveDown()) {}
RECURSIVE Game_throwDownLoop(_, _, _)
Game_throwDownLoop(g, rnd, calls) ==
    The({IF step.ok
         THEN Game_throwDownLoop(step.g, rnd, calls + 1)
         ELSE Ret(step.g, FALSE, calls + 1, step.landed, step.removed) :
            step \in {Game_moveDown(g, rnd)}})

\* Mutant of throwDown: moveDown is called once more after the loop.
Mut_throwDown_extraMove(g, rnd) ==
    The({The({[extra EXCEPT !.calls = dropped.calls + 1,
                            !.landed = TRUE,
                            !.removed = dropped.removed] :
                 extra \in {Game_moveDown(dropped.g, rnd)}}) :
            dropped \in {Game_throwDownLoop(g, rnd, 0)}})

Game_throwDown(g, rnd) == Game_throwDownLoop(g, rnd, 0)

\* Mutant of clear: the score is kept.
Mut_clear_keepsScore(g, rnd) ==
    Game_nextShape([g EXCEPT !.board = Bitmap_emptyWithSize(ROWS, COLS),
                             !.state = PLAYING,
                             !.lines = 0], rnd)

Game_clear(g, rnd) ==
    Game_nextShape([g EXCEPT !.board = Bitmap_emptyWithSize(ROWS, COLS),
                             !.state = PLAYING,
                             !.lines = 0,
                             !.score = 0], rnd)

\* Mutant of togglePaused: every state but PLAYING becomes PLAYING.
Mut_togglePaused_resumesGameOver(g) ==
    IF g.state = PLAYING THEN [g EXCEPT !.state = PAUSED] ELSE [g EXCEPT !.state = PLAYING]

Game_togglePaused(g) ==
    CASE g.state = PLAYING -> [g EXCEPT !.state = PAUSED]
      [] g.state = PAUSED -> [g EXCEPT !.state = PLAYING]
      [] OTHER -> g

Game_left(g) == Shape_left(g).g

Game_right(g) == Shape_right(g).g

Game_rotate(g) == Shape_rotate(g).g

Game_down(g, rnd) == Game_moveDown(g, rnd)

Game_onControlKey(g, key, rnd) ==
    CASE key = "enter" -> Ret(Game_togglePaused(g), TRUE, 0, FALSE, 0)
      [] key = "r" -> Ret(Game_clear(g, rnd), TRUE, 0, FALSE, 0)
      [] OTHER -> Ret(g, FALSE, 0, FALSE, 0)

Game_onPlayKey(g, key, rnd) ==
    CASE key = "arrowleft" -> Ret(Game_left(g), TRUE, 0, FALSE, 0)
      [] key = "arrowright" -> Ret(Game_right(g), TRUE, 0, FALSE, 0)
      [] key = "arrowup" -> Ret(Game_rotate(g), TRUE, 0, FALSE, 0)
      [] key = "arrowdown" -> [Game_down(g, rnd) EXCEPT !.ok = TRUE]
      [] key \in {"spacebar", " "} -> [Game_throwDown(g, rnd) EXCEPT !.ok = TRUE]
      [] OTHER -> Ret(g, FALSE, 0, FALSE, 0)

\* Mutant of onKeyEvent: play keys are handled in every state.
Mut_onKeyEvent_ungated(g, key, rnd) ==
    The({IF ~control.ok THEN Game_onPlayKey(control.g, key, rnd) ELSE control :
            control \in {Game_onControlKey(g, key, rnd)}})

Game_onKeyEvent(g, key, rnd) ==
    The({IF ~control.ok /\ control.g.state = PLAYING
         THEN Game_onPlayKey(control.g, key, rnd)
         ELSE control :
            control \in {Game_onControlKey(g, key, rnd)}})

\* Mutant of update: the step of gravity is left out.
Mut_update_noGravity(g, due, rnd) == Ret(g, FALSE, 0, FALSE, 0)

\* update(now): due is  now - this.lastStep > STEP_SPEED.  The timestamps
\* lastStep and lastUpdate and the drawing read the game and change none of
\* the fields kept here.
Game_update(g, due, rnd) ==
    IF g.state = PLAYING /\ due
    THEN Game_moveDown(g, rnd)
    ELSE Ret(g, FALSE, 0, FALSE, 0)

\* new Game(canvas): the fields, then nextShape().
Game_constructor(rnd) ==
    Game_nextShape([board |-> Bitmap_emptyWithSize(ROWS, COLS),
                    index |-> 0,
                    rot |-> [i \in 0 .. (Len(BLOCKS) - 1) |-> 0],
                    rowOffset |-> 0,
                    colOffset |-> 0,
                    state |-> PLAYING,
                    lines |-> 0,
                    score |-> 0], rnd)

\* ------------------------------------------------------------------------
\* The calls of Bitmap.isOverlapping and Bitmap.copyFrom a handler makes: the
\* set of their arguments, less the cells of the board.
\* ------------------------------------------------------------------------

\* The arguments of shape.isOverlapping(board) or shape.copyTo(board) in g.
Access(g) ==
    [rowOffset |-> g.rowOffset, colOffset |-> g.colOffset,
     index |-> g.index, rot |-> g.rot[g.index],
     boardRows |-> Bitmap_rows(g.board), boardCols |-> Bitmap_cols(g.board)]

\* !this.isWithin(board) || this.isOverlapping(board): the overlap is
\* tested only when isWithin holds.
Accesses_moved(moved) == IF Shape_isWithin(moved) THEN {Access(moved)} ELSE {}

Accesses_changeColOffset(g, colOffset) == Accesses_moved([g EXCEPT !.colOffset = colOffset])

Accesses_down(g) == Accesses_moved([g EXCEPT !.rowOffset = g.rowOffset + 1])

\* rotate: the overlap is tested after next() and fitWithin().
Accesses_rotate(g) ==
    {Access(Shape_fitWithin([g EXCEPT !.rot[g.index] =
                                Bag_next(g.rot[g.index], Len(ShapeRotations[g.index]))]))}

\* nextShape: resetPosition tests the overlap of whichever shape is drawn.
Accesses_nextShape(g) ==
    {Access(Shape_resetPosition([g EXCEPT !.index = rnd]).g) : rnd \in Bag_random(Len(BLOCKS))}

\* The landing: copyTo where the shape is, then nextShape (removeFilledRows
\* in between leaves the board its size).
Accesses_land(g) == {Access(g)} \cup Accesses_nextShape(g)

Accesses_moveDown(g) ==
    Accesses_down(g) \cup IF Shape_down(g).ok THEN {} ELSE Accesses_land(g)

RECURSIVE Accesses_throwDown(_)
Accesses_throwDown(g) ==
    The({Accesses_down(g) \cup IF moved.ok
                               THEN Accesses_throwDown(moved.g)
                               ELSE Accesses_land(g) :
            moved \in {Shape_down(g)}})

Accesses_clear(g) == Accesses_nextShape([g EXCEPT !.board = Bitmap_emptyWithSize(ROWS, COLS)])

Accesses_onKeyEvent(g, key) ==
    CASE key = "enter" -> {}
      [] key = "r" -> Accesses_clear(g)
      [] g.state # PLAYING -> {}
      [] key = "arrowleft" -> Accesses_changeColOffset(g, g.colOffset - 1)
      [] key = "arrowright" -> Accesses_changeColOffset(g, g.colOffset + 1)
      [] key = "arrowup" -> Accesses_rotate(g)
      [] key = "arrowdown" -> Accesses_moveDown(g)
      [] key \in {"spacebar", " "} -> Accesses_throwDown(g)
      [] OTHER -> {}

Accesses_update(g) == IF g.state = PLAYING THEN Accesses_moveDown(g) ELSE {}

\* ------------------------------------------------------------------------
\* The state machine
\* ------------------------------------------------------------------------

\* The commands explored from an initial state.
MaxSteps == 3

VARIABLES
    board,      \* Game.board
    index,      \* Game.shapes.index
    rot,        \* Shape.rotations.index of each of the 7 shapes
    rowOffset,  \* Shape.rowOffset of shapes.current()
    colOffset,  \* Shape.colOffset of shapes.current()
    state,      \* Game.state
    lines,      \* Game.lines
    score,      \* Game.score
    event,      \* history: the last command and what its handler did
    hist,       \* history: the rows removed at each landing since the last clear()
    steps,      \* history: the commands and frames since the initial state
    args,       \* a call of a Bitmap or Bag method on its own: its arguments
    result      \* <<>> before that call, <<what it returned or left>> after

vars == <<board, index, rot, rowOffset, colOffset, state, lines, score,
          event, hist, steps, args, result>>

\* The game record of the current state.
Game ==
    [board |-> board, index |-> index, rot |-> rot, rowOffset |-> rowOffset,
     colOffset |-> colOffset, state |-> state, lines |-> lines, score |-> score]

Event(cmd, res) ==
    [cmd |-> cmd, calls |-> res.calls, landed |-> res.landed, removed |-> res.removed]

History(h, cmd, res) ==
    IF cmd = "Reset" THEN <<>>
    ELSE IF res.landed THEN Append(h, res.removed) ELSE h

\* The key of a command that has one key.
KeyOf(cmd) ==
    CASE cmd = "MoveLeft" -> "arrowleft"
      [] cmd = "MoveRight" -> "arrowright"
      [] cmd = "RotateCW" -> "arrowup"
      [] cmd = "SoftDrop" -> "arrowdown"
      [] cmd = "HardDrop" -> " "
      [] cmd = "TogglePause" -> "enter"
      [] cmd = "Reset" -> "r"

\* A play: the state [g, event, hist] a sequence of <<command, rnd>> leads to.
PlayStep(st, cmd, rnd) ==
    The({[g |-> res.g, event |-> Event(cmd, res), hist |-> History(st.hist, cmd, res)] :
            res \in {Game_onKeyEvent(st.g, KeyOf(cmd), rnd)}})

\* The commands of a script, played in order: the first half, then the rest.
RECURSIVE Play(_, _)
Play(st, script) ==
    IF Len(script) = 0
    THEN st
    ELSE IF Len(script) = 1
         THEN PlayStep(st, script[1][1], script[1][2])
         ELSE The({Play(half, SubSeq(script, Len(script) \div 2 + 1, Len(script))) :
                      half \in {Play(st, SubSeq(script, 1, Len(script) \div 2))}})

Constructed(rnd) ==
    [g |-> Game_constructor(rnd),
     event |-> [cmd |-> "new", calls |-> 0, landed |-> FALSE, removed |-> 0],
     hist |-> <<>>]

RECURSIVE Times(_, _)
Times(cmd, n) == IF n = 0 THEN <<>> ELSE << <<cmd, 0>> >> \o Times(cmd, n - 1)

\* The scripts below are played from the game constructed with the I piece;
\* every drop of a script selects the I piece again unless it says otherwise.

\* An upright I piece in each of the columns 0, 1, 2, 7, 8 and 9: rows 11..14
\* are full but for columns 3..6.
WallsScript ==
    Times("RotateCW", 1)
    \o Times("MoveLeft", 3) \o Times("HardDrop", 1)
    \o Times("MoveLeft", 3) \o Times("HardDrop", 1)
    \o Times("MoveLeft", 2) \o Times("HardDrop", 1)
    \o Times("MoveRight", 3) \o Times("HardDrop", 1)
    \o Times("MoveRight", 4) \o Times("HardDrop", 1)
    \o Times("MoveRight", 5) \o Times("HardDrop", 1)

\* The walls, and the I piece turned flat above the 4-wide well.
WellScript == WallsScript \o Times("RotateCW", 1) \o Times("MoveLeft", 1)

\* The well, and the flat I piece moved down to the bottom of the well, where
\* it rests between the walls.
WellBottomScript == WellScript \o Times("SoftDrop", 14)

\* The well, the I piece dropped into it (a row removed), the square piece
\* dropped on the left wall (no row removed), and the I piece selected next.
WellWallScript ==
    WellScript \o << <<"HardDrop", 3>> >>
    \o Times("MoveLeft", 3) \o Times("HardDrop", 1)

\* The well, the I piece dropped into it (a row removed), the square piece
\* dropped into columns 3..4 of the well, and a second square piece moved
\* above columns 5..6.
WellSquareScript ==
    WellScript \o << <<"HardDrop", 3>> >>
    \o Times("MoveLeft", 1) \o << <<"HardDrop", 3>> >>
    \o Times("MoveRight", 1)

\* The walls, and upright I pieces in columns 3, 5 and 6: rows 11..14 are full
\* but for column 4, with an upright I piece above it.
ShaftScript ==
    WallsScript
    \o Times("MoveLeft", 1) \o Times("HardDrop", 1)
    \o Times("MoveRight", 1) \o Times("HardDrop", 1)
    \o Times("MoveRight", 2) \o Times("HardDrop", 1)

\* Two upright I pieces on top of each other in column 4, a third above them.
TowerScript ==
    Times("RotateCW", 1) \o Times("MoveRight", 1)
    \o Times("HardDrop", 1) \o Times("HardDrop", 1)

\* An upright I piece in each of the columns 6, 7 and 8, and a fourth moved
\* down column 9 to the bottom: it stands in rows 11..14 beside the other three.
CornerScript ==
    Times("RotateCW", 1)
    \o Times("MoveRight", 3) \o Times("HardDrop", 1)
    \o Times("MoveRight", 3) \o Times("HardDrop", 1)
    \o Times("MoveRight", 4) \o Times("HardDrop", 1)
    \o Times("MoveRight", 5) \o Times("SoftDrop", 11)

Scripts ==
    {WellScript, WellBottomScript, WellWallScript, WellSquareScript, ShaftScript,
     TowerScript, CornerScript}

\* The initial states: the game as constructed, with any first shape, and the
\* games the scripts lead to.
Starts ==
    {Constructed(rnd) : rnd \in Bag_random(Len(BLOCKS))}
    \cup {Play(Constructed(0), script) : script \in Scripts}

Become(st) ==
    /\ board' = st.g.board
    /\ index' = st.g.index
    /\ rot' = st.g.rot
    /\ rowOffset' = st.g.rowOffset
    /\ colOffset' = st.g.colOffset
    /\ state' = st.g.state
    /\ lines' = st.g.lines
    /\ score' = st.g.score
    /\ event' = st.event
    /\ hist' = st.hist
    /\ steps' = steps + 1
    /\ UNCHANGED <<args, result>>

\* The game is in the state st and no command has been explored yet.
Begin(st) ==
    /\ board = st.g.board
    /\ index = st.g.index
    /\ rot = st.g.rot
    /\ rowOffset = st.g.rowOffset
    /\ colOffset = st.g.colOffset
    /\ state = st.g.state
    /\ lines = st.g.lines
    /\ score = st.g.score
    /\ event = st.event
    /\ hist = st.hist
    /\ steps = 0

Init == (\E st \in Starts : Begin(st)) /\ args = <<>> /\ result = <<>>

Current == [g |-> Game, event |-> event, hist |-> hist]

\* A keydown event of the key of the command; rnds are the indices
\* Math.random() can yield in its handler.
Command(cmd, rnds) ==
    /\ steps < MaxSteps
    /\ \E rnd \in rnds : \E st \in {PlayStep(Current, cmd, rnd)} : Become(st)

\* The handlers of these commands never reach nextShape: rnd is not read.
NoDraw == {0}

MoveLeft == Command("MoveLeft", NoDraw)

MoveRight == Command("MoveRight", NoDraw)

RotateCW == Command("RotateCW", NoDraw)

TogglePause == Command("TogglePause", NoDraw)

SoftDrop == Command("SoftDrop", Bag_random(Len(BLOCKS)))

HardDrop == Command("HardDrop", Bag_random(Len(BLOCKS)))

Reset == Command("Reset", Bag_random(Len(BLOCKS)))

\* An animation frame: update(now).
Tick ==
    /\ steps < MaxSteps
    /\ \E due \in BOOLEAN, rnd \in Bag_random(Len(BLOCKS)) :
          \E res \in {Game_update(Game, due, rnd)} :
              Become([g |-> res.g,
                      event |-> Event(IF due THEN "Tick" ELSE "Frame", res),
                      hist |-> History(hist, "Tick", res)])

Next ==
    \/ MoveLeft
    \/ MoveRight
    \/ RotateCW
    \/ SoftDrop
    \/ HardDrop
    \/ TogglePause
    \/ Reset
    \/ Tick

Spec == Init /\ [][Next]_vars

\* ------------------------------------------------------------------------
\* The fall of one piece: from a state of the game in PLAYING, the keys that
\* move or turn the piece and the frames on which the step of gravity is
\* due, until the piece lands.  The frames keep coming: requestUpdate asks
\* for the next animation frame after every update.
\*   args[1]   a step has left the piece higher than it was
\*   result    <<>> while the piece falls, <<the rows removed>> once landed
\* ------------------------------------------------------------------------

Fall(cmd, res) ==
    /\ result = <<>>
    /\ board' = res.g.board
    /\ index' = res.g.index
    /\ rot' = res.g.rot
    /\ rowOffset' = res.g.rowOffset
    /\ colOffset' = res.g.colOffset
    /\ state' = res.g.state
    /\ lines' = res.g.lines
    /\ score' = res.g.score
    /\ event' = Event(cmd, res)
    /\ hist' = History(hist, cmd, res)
    /\ steps' = steps
    /\ args' = <<args[1] \/ (~res.landed /\ res.g.rowOffset < rowOffset)>>
    /\ result' = IF res.landed THEN <<res.removed>> ELSE <<>>

FallKey(cmd) == \E res \in {Game_onKeyEvent(Game, KeyOf(cmd), 0)} : Fall(cmd, res)

FallLeft == FallKey("MoveLeft")

FallRight == FallKey("MoveRight")

FallRotate == FallKey("RotateCW")

FallTick ==
    \E rnd \in Bag_random(Len(BLOCKS)) :
        \E res \in {Game_update(Game, TRUE, rnd)} : Fall("Tick", res)

FallInit ==
    /\ \E st \in Starts : Begin(st)
    /\ state = PLAYING
    /\ args = <<FALSE>>
    /\ result = <<>>

FallNext == FallLeft \/ FallRight \/ FallRotate \/ FallTick

FallSpec == FallInit /\ [][FallNext]_vars /\ WF_vars(FallTick)

\* ------------------------------------------------------------------------
\* Calls of the Bitmap and Bag methods on their own, on small arguments
\* ------------------------------------------------------------------------

\* The largest grid the calls are made on.
MaxGridRows == 3

MaxGridCols == 2

\* The grids of a given size over the cells `cells`.
Grids(nrows, ncols, cells) == [1 .. nrows -> [1 .. ncols -> cells]]

\* The grids of every size up to the largest.
AllGrids(cells) ==
    UNION {Grids(nrows, ncols, cells) : nrows \in 1 .. MaxGridRows, ncols \in 1 .. MaxGridCols}

\* The call is to be made on one of the arguments `inputs`; the game stands by.
Called(inputs) == Begin(Constructed(0)) /\ args \in inputs /\ result = <<>>

\* The call is made and has returned `value`.
Returns(value) ==
    /\ result = <<>>
    /\ result' = <<value>>
    /\ UNCHANGED <<board, index, rot, rowOffset, colOffset, state, lines, score,
                   event, hist, steps, args>>

\* bitmap.removeFilledRows() on the grid args[1].
RemoveFilledRows == Returns(Bitmap_removeFilledRows(args[1]))

RowsInit == Called({<<b>> : b \in AllGrids({E, R})})

RowsNext == RemoveFilledRows

RowsSpec == RowsInit /\ [][RowsNext]_vars

\* The game record g with the small board b instead of its own, and the
\* shape i in its rotation k at the offsets ro and co.
SmallGame(g, b, i, k, ro, co) ==
    [g EXCEPT !.board = b, !.index = i, !.rot[i] = k,
              !.rowOffset = ro, !.colOffset = co]

\* shape.copyTo(board) of the shape and board of the game record args[1].
CopyTo == Returns(Shape_copyTo(args[1]))

\* A board of the largest size, any shape in any rotation at any offsets of
\* the board.
CopyInit ==
    /\ Begin(Constructed(0))
    /\ result = <<>>
    /\ \E b \in Grids(MaxGridRows, MaxGridCols, {E, R}) :
          \E i \in 0 .. (Len(BLOCKS) - 1), k \in 0 .. 3 :
              \E ro \in 0 .. (MaxGridRows - 1), co \in 0 .. (MaxGridCols - 1) :
                  args = <<SmallGame(Game, b, i, k, ro, co)>>

CopyNext == CopyTo

CopySpec == CopyInit /\ [][CopyNext]_vars

\* bitmap.rotate() and bitmap.allRotations() on the grid args[1], and
\* rotate() on the last of the rotations.
Rotate ==
    \E all \in {Bitmap_allRotations(args[1])} :
        Returns([once |-> Bitmap_rotate(args[1]), all |-> all,
                 fifth |-> Bitmap_rotate(all[Len(all)])])

\* Every small grid, and the base bitmaps of the seven shapes.
RotateInit ==
    Called({<<b>> : b \in AllGrids({E, R}) \cup {BLOCKS[i] : i \in 1 .. Len(BLOCKS)}})

RotateNext == Rotate

RotateSpec == RotateInit /\ [][RotateNext]_vars

\* a.isOverlapping(r, c, b) of the grids a, b and the offsets r, c of args,
\* and b.isOverlapping(-r, -c, a).
IsOverlapping ==
    Returns([ab |-> Bitmap_isOverlappingOutcome(args[1], args[2], args[3], args[4]),
             ba |-> Bitmap_isOverlappingOutcome(args[4], -args[2], -args[3], args[1])])

\* Any small grid at any offset, to either side, that leaves it a cell in
\* common with a grid of the largest size.
OverlapInit ==
    Called(AllGrids({E, R})
           \X ((1 - MaxGridRows) .. (MaxGridRows - 1))
           \X ((1 - MaxGridCols) .. (MaxGridCols - 1))
           \X Grids(MaxGridRows, MaxGridCols, {E, R}))

OverlapNext == IsOverlapping

OverlapSpec == OverlapInit /\ [][OverlapNext]_vars

\* The longest bag the calls are made on.
MaxBagLen == 7

\* The last two elements of a sequence, or all of a shorter one.
LastTwo(q) == IF Len(q) <= 2 THEN q ELSE SubSeq(q, Len(q) - 1, Len(q))

\* A call on a bag of args[1] values that leaves the bag's index at i.
\* result[1] is the bag and the calls made on it:
\*   index        the bag's index
\*   ops, idx     the last calls (two at most) and the index before each
\*   run, from    the calls of next() made in a row (the bag's length at
\*                most) and the index before the first of them
BagCall(op, i) ==
    LET bag == result[1]
        first == op # "next" \/ bag.run = 0 \/ bag.run = args[1]
    IN  /\ result' = <<[index |-> i,
                        ops |-> LastTwo(Append(bag.ops, op)),
                        idx |-> LastTwo(Append(bag.idx, bag.index)),
                        run |-> IF op # "next" THEN 0 ELSE IF first THEN 1 ELSE bag.run + 1,
                        from |-> IF first THEN bag.index ELSE bag.from]>>
        /\ UNCHANGED <<board, index, rot, rowOffset, colOffset, state, lines, score,
                       event, hist, steps, args>>

BagNext == BagCall("next", Bag_next(result[1].index, args[1]))

BagPrevious == BagCall("previous", Bag_previous(result[1].index, args[1]))

BagRandom == \E i \in Bag_random(args[1]) : BagCall("random", i)

\* new Bag(values) of 1 .. MaxBagLen values: the index is 0.
BagInit ==
    /\ Begin(Constructed(0))
    /\ \E n \in 1 .. MaxBagLen : args = <<n>>
    /\ result = <<[index |-> 0, ops |-> <<>>, idx |-> <<>>, run |-> 0, from |-> 0]>>

BagStep == BagNext \/ BagPrevious \/ BagRandom

BagSpec == BagInit /\ [][BagStep]_vars

\* ------------------------------------------------------------------------
\* Properties
\* ------------------------------------------------------------------------

Movements == {"MoveLeft", "MoveRight", "RotateCW", "SoftDrop", "HardDrop"}

\* The bitmap of the active piece in its current rotation.
Piece == ShapeRotations[index][rot[index] + 1]

\* floor((boardCols - pieceCols) / 2)
Centre == (COLS - Len(Piece[1])) \div 2

\* The active piece, put at row 0 and column Centre, has a non-EMPTY cell on
\* a non-EMPTY cell of the board.
OverlapsAtTop ==
    \E r \in 1 .. Len(Piece), c \in 1 .. Len(Piece[1]) :
        Piece[r][c] # E /\ board[r][Centre + c] # E

\* The step selected a new piece: a landing or a Reset.
Selects == event'.landed \/ event'.cmd = "Reset"

BoardIsEmpty == \A r \in 1 .. ROWS, c \in 1 .. COLS : board[r][c] = E

\* C1: the game enters GAME_OVER only in a step that selects a new piece
\* (the construction, a landing, a Reset); the selected piece is put at row
\* 0, centred, and the game is over after the selection exactly when the
\* piece there overlaps the board; with no overlap the state stays what it
\* was (PLAYING at a landing, and PLAYING as clear() has set it at a Reset).
C1_GameOverAtSelection ==
    /\ (event.cmd = "new" =>
            /\ rowOffset = 0 /\ colOffset = Centre
            /\ state = IF OverlapsAtTop THEN GAME_OVER ELSE PLAYING)
    /\ [][/\ (state # GAME_OVER /\ state' = GAME_OVER) => Selects
          /\ Selects =>
                /\ rowOffset' = 0 /\ colOffset' = Centre'
                /\ state' = IF OverlapsAtTop' THEN GAME_OVER ELSE PLAYING
                /\ event'.landed => state = PLAYING]_vars

\* C1 witness: a landing selected a piece that overlaps the board.
C1_Witness == event.landed /\ state = GAME_OVER /\ OverlapsAtTop

\* C2: in PAUSED and in GAME_OVER a movement command or a frame of the
\* animation loop changes neither the board, the piece, the score, the
\* lines nor the state.
C2_NoMovementWhenStopped ==
    [][(state \in {PAUSED, GAME_OVER} /\ event'.cmd \in Movements \cup {"Tick", "Frame"})
        => UNCHANGED <<board, index, rot, rowOffset, colOffset, score, lines, state>>]_vars

\* C2 witness: a hard drop was issued while the game was paused, with the
\* piece above free rows.
C2_Witness ==
    /\ state = PAUSED /\ event.cmd = "HardDrop"
    /\ Shape_down(Game).ok

\* C3: a Reset ends in PLAYING with an empty board, score 0 and lines 0,
\* and the piece it selects is at row 0, centred, whatever the shape and the
\* rotation it was left in.
C3_Reset ==
    [][event'.cmd = "Reset" =>
          /\ state' = PLAYING
          /\ BoardIsEmpty'
          /\ score' = 0 /\ lines' = 0
          /\ rowOffset' = 0 /\ colOffset' = Centre'
          /\ ~OverlapsAtTop']_vars

\* C3 witness: a Reset selected a shape that had been left rotated.
C3_Witness == event.cmd = "Reset" /\ rot[index] # 0 /\ state = PLAYING

\* C4: TogglePause turns PLAYING into PAUSED and PAUSED into PLAYING and
\* leaves GAME_OVER; it changes nothing else; GAME_OVER is left by a Reset
\* only.
C4_TogglePause ==
    [][/\ event'.cmd = "TogglePause" =>
             /\ state' = CASE state = PLAYING -> PAUSED
                           [] state = PAUSED -> PLAYING
                           [] state = GAME_OVER -> GAME_OVER
             /\ UNCHANGED <<board, index, rot, rowOffset, colOffset, score, lines>>
       /\ (state = GAME_OVER /\ state' # GAME_OVER) => event'.cmd = "Reset"]_vars

\* C4 witness: TogglePause was issued in GAME_OVER.
C4_Witness == event.cmd = "TogglePause" /\ state = GAME_OVER

\* The non-EMPTY cells of a grid of the board's size.
Cells(b) == Cardinality({rc \in (1 .. ROWS) \X (1 .. COLS) : b[rc[1]][rc[2]] # E})

\* C5: a landing that removes k rows adds k to lines, and adds to the score
\* 10 times the new lines total if k < 4 (also if k = 0) and 1000 if k = 4;
\* k is the number of rows the board lost (the piece adds its 4 cells, a
\* removed row takes COLS cells away; the piece adds fewer than 4 cells when
\* it lies on cells of the board, as it can after a rotate that failed).  No
\* other step but a Reset changes score or lines.
C5_LandingScore ==
    [][IF event'.landed
       THEN /\ state = PLAYING
            /\ event'.removed \in 0 .. 4
            /\ Cells(board') + COLS * event'.removed
                   \in Cells(board) .. (Cells(board) + 4)
            /\ lines' = lines + event'.removed
            /\ score' = score + IF event'.removed < 4 THEN 10 * lines' ELSE 1000
       ELSE event'.cmd = "Reset" \/ UNCHANGED <<score, lines>>]_vars

\* C5 witness: a landing removed four rows and scored 1000.
C5_Witness == event.landed /\ event.removed = 4 /\ lines = 4 /\ score = 1000

\* The landings since the construction or the last Reset that removed rows.
Clears == {i \in 1 .. Len(hist) : hist[i] # 0}

\* Exactly three landings removed rows, one row each, and the third of them
\* is the last landing so far.
ThreeSingleClears ==
    /\ Cardinality(Clears) = 3
    /\ \A i \in Clears : hist[i] = 1
    /\ Len(hist) \in Clears

\* The landings that removed no row, each paired with every clear before it.
IdleAfterClear == {ij \in (1 .. Len(hist)) \X Clears : hist[ij[1]] = 0 /\ ij[2] < ij[1]}

\* C6 as stated: right after the third single-row clear the score is 60.
C6_Original == ThreeSingleClears => score = 60

\* C6 amended: the first three clears, of one row each, add 10, 20 and 30;
\* right after the third the score is 60 plus 10 for every earlier clear of
\* every landing in between that removed no row.
C6_ThreeClears ==
    /\ [](ThreeSingleClears => score = 60 + 10 * Cardinality(IdleAfterClear))
    /\ [][(event'.landed /\ event'.removed = 1 /\ lines' <= 3
                /\ \A i \in Clears' : hist'[i] = 1)
            => score' = score + 10 * Cardinality(Clears')]_vars

\* C6 witness: three single-row clears in a row, and the score is 60.
C6_Witness == ThreeSingleClears /\ IdleAfterClear = {} /\ score = 60

\* C7: score and lines are natural numbers, and no step but a Reset
\* decreases either.
C7_Monotonic ==
    /\ [](score \in Nat /\ lines \in Nat)
    /\ [][event'.cmd # "Reset" => (score' >= score /\ lines' >= lines)]_vars

\* C7 witness: a second landing has raised a score that was already positive.
C7_Witness == event.landed /\ Len(hist) >= 2 /\ lines >= 4 /\ score > 1000

\* C8: a hard drop ends after at most ROWS calls of moveDown.
C8_HardDropBound == event.cmd = "HardDrop" => event.calls <= ROWS

\* C8 witness: a hard drop that took ROWS calls of moveDown.
C8_Witness == event.cmd = "HardDrop" /\ event.landed /\ event.calls = ROWS

\* C9: a hard drop in PLAYING lands one piece: the board gains the cells of
\* one piece (at most 4) and loses the rows removed, lines and score are updated once,
\* one landing is added to the history, and the piece selected is left where
\* resetPosition put it.
C9_HardDropLandsOnce ==
    [][(event'.cmd = "HardDrop" /\ state = PLAYING) =>
          /\ event'.landed
          /\ hist' = Append(hist, event'.removed)
          /\ Cells(board') + COLS * event'.removed
                 \in Cells(board) .. (Cells(board) + 4)
          /\ lines' = lines + event'.removed
          /\ score' = score + IF event'.removed < 4 THEN 10 * lines' ELSE 1000
          /\ rowOffset' = 0 /\ colOffset' = Centre']_vars

\* C9 witness: a hard drop landed a piece from above free rows, removed a
\* row, and the game goes on with the next piece at the top.
C9_Witness ==
    /\ event.cmd = "HardDrop" /\ event.calls > 1 /\ event.removed > 0
    /\ state = PLAYING /\ rowOffset = 0 /\ Shape_down(Game).ok

\* The active piece fits at row r, column c: inside the board and on no
\* non-EMPTY cell of the board with a non-EMPTY cell of its own.
Fits(r, c) ==
    /\ r >= 0 /\ c >= 0
    /\ r + Len(Piece) <= ROWS /\ c + Len(Piece[1]) <= COLS
    /\ \A i \in 1 .. Len(Piece), j \in 1 .. Len(Piece[1]) :
          Piece[i][j] = E \/ board[r + i][c + j] = E

\* The move of the active piece by (dr, dc) returned `res`.
MovedBy(res, dr, dc) ==
    /\ res.ok = Fits(rowOffset + dr, colOffset + dc)
    /\ res.g = IF res.ok
               THEN [Game EXCEPT !.rowOffset = rowOffset + dr, !.colOffset = colOffset + dc]
               ELSE Game

\* C10: left, right and down of the active piece return false exactly when
\* the piece does not fit one cell to the left, to the right or below, and
\* then change nothing; otherwise they return true and change that one offset
\* by one.
C10_Moves ==
    /\ MovedBy(Shape_left(Game), 0, -1)
    /\ MovedBy(Shape_right(Game), 0, 1)
    /\ MovedBy(Shape_down(Game), 1, 0)

\* C10 witness: a move to the left was issued with the piece in a legal place
\* away from the left edge of the board, and the cells of the board to its
\* left keep it from moving further left.
C10_Witness ==
    /\ event.cmd = "MoveLeft" /\ state = PLAYING
    /\ Fits(rowOffset, colOffset) /\ colOffset > 0
    /\ ~Shape_left(Game).ok

\* C11: a rotate that returns false leaves the rotation and both offsets of
\* the piece as they were.
C11_RotateRollback ==
    [][(event'.cmd = "RotateCW" /\ state = PLAYING /\ ~Shape_rotate(Game).ok)
          => UNCHANGED <<rot, rowOffset, colOffset>>]_vars

\* A row with an EMPTY cell.
NotFilled(row) == \E c \in 1 .. Len(row) : row[c] = E

\* The rows of the grid b that have no EMPTY cell.
FilledRows(b) == {r \in 1 .. Len(b) : ~NotFilled(b[r])}

\* C12: removeFilledRows on a grid returns the number k of its rows without
\* an EMPTY cell and leaves a grid of the same size: k all-EMPTY rows on top
\* of the rows that were not filled, in their order and unchanged.
C12_RemoveFilledRows ==
    result # <<>> =>
        LET b == args[1]
            k == Cardinality(FilledRows(b))
        IN  /\ Len(result[1]) = 2
            /\ result[1][2] = k
            /\ result[1][1] = [r \in 1 .. k |-> [c \in 1 .. Len(b[1]) |-> E]]
                                 \o SelectSeq(b, NotFilled)

\* The cell of the piece of g that lies on the board's row r, column c
\* (counted from 1), or EMPTY when the piece does not reach there.
PieceCellAt(g, r, c) ==
    LET piece == ShapeRotations[g.index][g.rot[g.index] + 1]
        pr == r - g.rowOffset
        pc == c - g.colOffset
    IN  IF pr \in 1 .. Len(piece) /\ pc \in 1 .. Len(piece[1]) THEN piece[pr][pc] ELSE E

\* C13: the commit writes the piece's colour into the board cells under the
\* piece's non-EMPTY cells and leaves every other cell of the board, also
\* those under the piece's EMPTY cells, as it was; the board keeps its size
\* and the piece its rotation and offsets.
C13_Commit ==
    result # <<>> =>
        LET g == args[1]
            after == result[1]
        IN  /\ [after EXCEPT !.board = g.board] = g
            /\ Len(after.board) = Len(g.board)
            /\ \A r \in 1 .. Len(g.board) :
                  /\ Len(after.board[r]) = Len(g.board[r])
                  /\ \A c \in 1 .. Len(g.board[r]) :
                        after.board[r][c] =
                            IF PieceCellAt(g, r, c) # E
                            THEN PieceCellAt(g, r, c)
                            ELSE g.board[r][c]

\* C13 witness: a piece that lies inside the board was committed; one of its
\* cells was written into an EMPTY cell of the board and one of its EMPTY
\* cells lies on a cell of the board that kept its colour.
C13_Witness ==
    /\ result # <<>>
    /\ Shape_isWithin(args[1])
    /\ \E r \in 1 .. MaxGridRows, c \in 1 .. MaxGridCols :
          /\ PieceCellAt(args[1], r, c) # E /\ args[1].board[r][c] = E
          /\ result[1].board[r][c] = PieceCellAt(args[1], r, c)
    /\ \E r \in 1 .. MaxGridRows, c \in 1 .. MaxGridCols :
          /\ r - args[1].rowOffset \in 1 .. Len(Shape_current(args[1]))
          /\ c - args[1].colOffset \in 1 .. Len(Shape_current(args[1])[1])
          /\ PieceCellAt(args[1], r, c) = E
          /\ result[1].board[r][c] = R

\* The grid `turned` is the grid b turned clockwise by a quarter: it has
\* b's columns as rows, and its cell (c, r) is b's cell (rows-1-r, c),
\* counted from 0.
IsClockwise(turned, b) ==
    /\ Len(turned) = Len(b[1])
    /\ \A c \in 0 .. (Len(b[1]) - 1) :
          /\ Len(turned[c + 1]) = Len(b)
          /\ \A r \in 0 .. (Len(b) - 1) :
                turned[c + 1][r + 1] = b[(Len(b) - 1 - r) + 1][c + 1]

\* C14: rotate returns the grid turned clockwise; allRotations holds the grid
\* and its three successive turns, and the last of them turned once more is
\* the grid itself, cell for cell.
C14_Rotate ==
    result # <<>> =>
        LET b == args[1]
            all == result[1].all
        IN  /\ IsClockwise(result[1].once, b)
            /\ Len(all) = 4
            /\ all[1] = b
            /\ \A i \in 1 .. 3 : IsClockwise(all[i + 1], all[i])
            /\ IsClockwise(result[1].fifth, all[4])
            /\ result[1].fifth = b

\* C14 witness: a grid that is not square was turned, and its four rotations
\* differ from each other.
C14_Witness ==
    /\ result # <<>>
    /\ Len(args[1]) # Len(args[1][1])
    /\ Cardinality({result[1].all[i] : i \in 1 .. 4}) = 4

\* C15: the index of a bag of n >= 1 values stays in 0 .. n-1 under next,
\* previous and random; previous after next and next after previous leave
\* the index where it was; n calls of next in a row do too.
C15_Bag ==
    LET bag == result[1]
        n == args[1]
    IN  /\ bag.index \in 0 .. (n - 1)
        /\ (bag.ops = <<"next", "previous">> \/ bag.ops = <<"previous", "next">>)
              => bag.index = bag.idx[1]
        /\ bag.run = n => bag.index = bag.from

\* C15 witness: in a bag of several values, next was called from the last
\* index and previous after it; and next was called as often as the bag has
\* values, from an index other than 0.
C15_Witness ==
    /\ args[1] >= 2
    /\ result[1].ops = <<"next", "previous">>
    /\ result[1].idx = <<args[1] - 1, 0>>
    /\ result[1].index = args[1] - 1

\* C16: testing the grid a against b at the offset (r, c) returns a boolean,
\* and testing b against a at (-r, -c) returns the same boolean.
C16_OverlapSymmetric ==
    result # <<>> =>
        /\ result[1].ab \in {"true", "false"}
        /\ result[1].ba = result[1].ab

\* A call of isOverlapping or copyFrom with the arguments p has offsets >= 0
\* and its loops, which run from the offsets to the nearer of the board's and
\* the shape's far edges, visit only cells that are in the shape's bitmap and
\* in the 15x10 board.
InBounds(p) ==
    LET piece == ShapeRotations[p.index][p.rot + 1]
    IN  /\ p.rowOffset >= 0 /\ p.colOffset >= 0
        /\ p.boardRows = ROWS /\ p.boardCols = COLS
        /\ \A row \in p.rowOffset .. (Min(p.boardRows, p.rowOffset + Len(piece)) - 1) :
              /\ row \in 0 .. (ROWS - 1)
              /\ row - p.rowOffset \in 0 .. (Len(piece) - 1)
        /\ \A col \in p.colOffset .. (Min(p.boardCols, p.colOffset + Len(piece[1])) - 1) :
              /\ col \in 0 .. (COLS - 1)
              /\ col - p.colOffset \in 0 .. (Len(piece[1]) - 1)

\* The keys the handlers know.
Keys == {"enter", "r", "arrowleft", "arrowright", "arrowup", "arrowdown", " "}

\* C17: whatever key or frame comes next in a reachable state, every overlap
\* test and every commit its handler makes has offsets >= 0 and stays inside
\* the shape's bitmap and the 15x10 board: nothing throws.
C17_NoFailure ==
    /\ \A key \in Keys : \A p \in Accesses_onKeyEvent(Game, key) : InBounds(p)
    /\ \A p \in Accesses_update(Game) : InBounds(p)

\* C17 witness: the piece was moved to the left edge of the board; a further
\* move to the left is refused by isWithin before any cell is read, and a
\* move down or a drop tests and commits the piece in the first column.
C17_Witness ==
    /\ event.cmd = "MoveLeft" /\ state = PLAYING /\ colOffset = 0
    /\ Accesses_onKeyEvent(Game, "arrowleft") = {}
    /\ \E p \in Accesses_onKeyEvent(Game, " ") : p.colOffset = 0 /\ p.rowOffset > 0

\* C18: while the game is PLAYING the active piece in its current rotation
\* lies inside the board and none of its cells is on a cell of the board that
\* is not EMPTY.
C18_PieceLegal == state = PLAYING => Fits(rowOffset, colOffset)

\* C19: the board has ROWS rows of COLS cells and none of its rows is filled.
C19_NoFilledRow ==
    /\ Len(board) = ROWS
    /\ \A r \in 1 .. ROWS : Len(board[r]) = COLS /\ NotFilled(board[r])

\* C19 witness: a landing filled two rows at once and both were removed.
C19_Witness == event.landed /\ event.removed = 2 /\ ~BoardIsEmpty

\* C20 as stated: the piece eventually lands whatever moves and rotations
\* come between the steps of gravity, and until it lands its rowOffset never
\* decreases.
C20_Original ==
    /\ <>(result # <<>>)
    /\ [][result' = <<>> => rowOffset' >= rowOffset]_vars

\* C20 amended: a step of gravity lowers the piece by one row or lands it;
\* a move to the left or right keeps its row; only a rotation can leave the
\* piece higher than it was, by 3 rows at most;
\* and the piece eventually lands if the rotations eventually stop.
C20_Fall ==
    /\ [][event'.cmd = "Tick" =>
             \/ result' # <<>>
             \/ rowOffset' = rowOffset + 1 /\ colOffset' = colOffset /\ rot' = rot]_vars
    /\ [][event'.cmd \in {"MoveLeft", "MoveRight"} => rowOffset' = rowOffset]_vars
    /\ [][(result' = <<>> /\ rowOffset' < rowOffset) =>
             event'.cmd = "RotateCW" /\ rowOffset - rowOffset' <= 3]_vars
    /\ (<>[](event.cmd # "RotateCW")) => <>(result # <<>>)

\* C20 witness: a piece that a rotation had raised has landed on a step of
\* gravity.
C20_Witness == result # <<>> /\ args[1] /\ event.cmd = "Tick" /\ event.landed

====
